---- MODULE Spec2Model ----
(***************************************************************************)
(* CoreLedgerService (node/bft/ledger-service/src/ledger.rs): the bridge   *)
(* between the BFT consensus engine and the ledger.  The service holds a   *)
(* ledger handle and a shared shutdown flag; the caller holds the          *)
(* transmissions it asks the service to validate.                          *)
(*                                                                         *)
(* The ledger itself (snarkvm::ledger::Ledger), the lazy payload wrapper   *)
(* (narwhal::Data) and the transaction type are collaborators whose code   *)
(* is not part of ledger.rs; they are modelled from the contract the       *)
(* specification gives for them (sections 3, 4 and 6).                     *)
(***************************************************************************)
EXTENDS Integers, Sequences, FiniteSets

VARIABLES
    ledger,        \* self.ledger: [blocks, committees]
    shutdown,      \* self.shutdown: the shared AtomicBool
    transmission,  \* the caller's `&mut Transmission` handed to the service
    checkedId,     \* the id of the last successful identity check of `transmission`
    call,          \* the call the caller is in: operation, inputs, result
    attempt,       \* the commit attempts of the concurrent tasks
    base,          \* the ledger when the attempts in flight were all idle
    solver,        \* a concurrent task inside check_solution_basic
    resolver       \* a concurrent task inside get_committee_for_round

vars ==
    <<ledger, shutdown, transmission, checkedId, call, attempt, base, solver, resolver>>

\* What the concurrent tasks hold, and what the single caller holds.
tasks == <<attempt, base, solver, resolver>>
caller == <<transmission, checkedId, call>>

----------------------------------------------------------------------------
(* Bounds of the model. *)

\* Rounds of candidate blocks range over 0..MaxRound.
MaxRound == 4
\* The ledger grows to at most this height.
MaxHeight == 2
\* The first committee of the ledger handed to the service starts at an even
\* round no greater than this.
MaxGenesisRound == 2
\* Payload bodies range over 0..MaxBody.
MaxBody == 1

\* Committee queries range over the rounds 0..MaxQueryRound and FarRound, a
\* round far beyond the ledger.
MaxQueryRound == 11
FarRound == 100

Max(a, b) == IF a >= b THEN a ELSE b

CandidateRounds == 0..MaxRound
QueryRounds == (0..MaxQueryRound) \cup {FarRound}

----------------------------------------------------------------------------
(* Results: Rust's Result<T>.  err = "None" is Ok(val); otherwise val is   *)
(* the null value of its kind.                                             *)

NoCommittee == [id |-> -1, starting_round |-> -1]
NoBlock == [height |-> -1, round |-> -1, installs |-> FALSE]

Ok(v) == [err |-> "None", val |-> v]
ErrC(e) == [err |-> e, val |-> NoCommittee]
OkUnit == [err |-> "None"]
ErrUnit(e) == [err |-> e]

Some(v) == [some |-> TRUE, val |-> v]
None == [some |-> FALSE, val |-> NoCommittee]

----------------------------------------------------------------------------
(* The ledger collaborator.                                                *)

\* A committee is identified by the height of the block that installed it.
CommitteeOf(block) == [id |-> block.height, starting_round |-> block.round]

\* Ledger::latest_block / latest_height / latest_round.
LedgerLatestBlock(L) == L.blocks[Len(L.blocks)]
LedgerLatestHeight(L) == LedgerLatestBlock(L).height
LedgerLatestRound(L) == LedgerLatestBlock(L).round

\* Ledger::latest_committee: the stored committee with the greatest starting round.
LedgerLatestCommittee(L) ==
    CHOOSE c \in L.committees : \A d \in L.committees : d.starting_round <= c.starting_round

EarliestStartingRound(L) ==
    (CHOOSE c \in L.committees : \A d \in L.committees : c.starting_round <= d.starting_round).starting_round

\* Ledger::get_committee_for_round: Option<Committee>.  The store indexes the
\* rounds the ledger has seen: from its first committee up to its latest round.
LedgerGetCommitteeForRound(L, round) ==
    LET upto == {c \in L.committees : c.starting_round <= round} IN
    IF upto = {} \/ round > LedgerLatestRound(L)
    THEN None
    ELSE Some(CHOOSE c \in upto : \A d \in upto : d.starting_round <= c.starting_round)

\* What the store accepts as the next block (section 3 of the specification):
\* the height is the head's plus one, rounds do not decrease, and a new
\* committee starts after the current one, on an even round.
LedgerAccepts(L, block) ==
    /\ block.height = LedgerLatestHeight(L) + 1
    /\ block.round >= LedgerLatestRound(L)
    /\ block.installs =>
        /\ block.round % 2 = 0
        /\ block.round > LedgerLatestCommittee(L).starting_round

\* Ledger::advance_to_next_block: the atomic append.  `fault` is a failure of
\* the storage engine.  Returns the result and the ledger after the call.
LedgerAdvanceToNextBlock(L, block, fault) ==
    IF fault \/ ~LedgerAccepts(L, block)
    THEN [res |-> ErrUnit("StorageError"), ledger |-> L]
    ELSE [res |-> OkUnit,
          ledger |-> [blocks |-> Append(L.blocks, block),
                      committees |-> IF block.installs
                                     THEN L.committees \cup {CommitteeOf(block)}
                                     ELSE L.committees]]

----------------------------------------------------------------------------
(* CommitteeResolver.                                                      *)

\* current_committee (ledger.rs:151-153)
current_committee(L, fault) ==
    IF fault = "current" THEN ErrC("StorageError") ELSE Ok(LedgerLatestCommittee(L))

\* Variants of get_committee_for_round with a fault seeded in the fallback:
\* the comparison reversed, the fallback left out, the comparison left out.
get_committee_for_round_reversed(L, round, fault) ==
    IF fault = "lookup"
    THEN ErrC("StorageError")
    ELSE LET found == LedgerGetCommitteeForRound(L, round) IN
         IF found.some
         THEN Ok(found.val)
         ELSE LET current == current_committee(L, fault) IN
              IF current.err # "None"
              THEN current
              ELSE IF current.val.starting_round > round
                   THEN Ok(current.val)
                   ELSE ErrC("RoundTooOld")

get_committee_for_round_no_fallback(L, round, fault) ==
    IF fault = "lookup"
    THEN ErrC("StorageError")
    ELSE LET found == LedgerGetCommitteeForRound(L, round) IN
         IF found.some THEN Ok(found.val) ELSE ErrC("RoundTooOld")

get_committee_for_round_always_current(L, round, fault) ==
    IF fault = "lookup"
    THEN ErrC("StorageError")
    ELSE LET found == LedgerGetCommitteeForRound(L, round) IN
         IF found.some THEN Ok(found.val) ELSE current_committee(L, fault)

\* get_committee_for_round (ledger.rs:157-172).  fault names the storage call
\* that fails, if any: "lookup", "current" or "none".
get_committee_for_round(L, round, fault) ==
    IF fault = "lookup"
    THEN ErrC("StorageError")
    ELSE LET found == LedgerGetCommitteeForRound(L, round) IN
         IF found.some
         THEN Ok(found.val)
         ELSE LET current == current_committee(L, fault) IN
              IF current.err # "None"
              THEN current
              ELSE IF current.val.starting_round <= round
                   THEN Ok(current.val)
                   ELSE ErrC("RoundTooOld")

\* A variant of the subtraction without the floor at 0.
unchecked_sub(a, b) == a - b

\* u64::saturating_sub
saturating_sub(a, b) == Max(a - b, 0)

\* A variant with the parities exchanged.
previous_round_swapped(round) ==
    IF round % 2 = 0 THEN saturating_sub(round, 2) ELSE saturating_sub(round, 1)

\* A variant that steps back one round whatever the parity.
previous_round_one(round) == saturating_sub(round, 1)

\* The reference round of get_previous_committee_for_round (ledger.rs:179-182).
previous_round(round) ==
    IF round % 2 = 0 THEN saturating_sub(round, 1) ELSE saturating_sub(round, 2)

\* get_previous_committee_for_round (ledger.rs:176-186)
get_previous_committee_for_round(L, round, fault) ==
    get_committee_for_round(L, previous_round(round), fault)

----------------------------------------------------------------------------
(* BlockCommitPipeline.                                                    *)

\* Variants of advance_to_next_block with a fault seeded: the flag ignored,
\* the flag tested after the append.
advance_to_next_block_unguarded(L, flag, block, fault) ==
    LET appended == LedgerAdvanceToNextBlock(L, block, fault) IN
    [res |-> appended.res, ledger |-> appended.ledger, appendInvoked |-> TRUE]

advance_to_next_block_late_guard(L, flag, block, fault) ==
    LET appended == LedgerAdvanceToNextBlock(L, block, fault) IN
    IF appended.res.err = "None" /\ flag
    THEN [res |-> ErrUnit("Shutdown"), ledger |-> appended.ledger, appendInvoked |-> TRUE]
    ELSE [res |-> appended.res, ledger |-> appended.ledger, appendInvoked |-> TRUE]

\* A variant that stores the block also when the ledger has refused it.
advance_to_next_block_forcing(L, flag, block, fault) ==
    IF flag
    THEN [res |-> ErrUnit("Shutdown"), ledger |-> L, appendInvoked |-> FALSE]
    ELSE [res |-> OkUnit,
          ledger |-> [blocks |-> Append(L.blocks, block), committees |-> L.committees],
          appendInvoked |-> TRUE]

\* The ledger a commit writes to is the shared self.ledger (ledger.rs:327),
\* not the copy a task has seen earlier; the variant writes to the copy.
AppendTargetCopy(shared, copy) == copy
AppendTarget(shared, copy) == shared

\* advance_to_next_block (ledger.rs:321-330).  `flag` is the value loaded from
\* self.shutdown.  Returns the result, the ledger after the call and whether
\* Ledger::advance_to_next_block was invoked.
advance_to_next_block(L, flag, block, fault) ==
    IF flag
    THEN [res |-> ErrUnit("Shutdown"), ledger |-> L, appendInvoked |-> FALSE]
    ELSE LET appended == LedgerAdvanceToNextBlock(L, block, fault) IN
         [res |-> appended.res, ledger |-> appended.ledger, appendInvoked |-> TRUE]

\* Block::hash: the identity of a block is its content.
Hash(block) == <<block.height, block.round, block.installs>>
NoHash == <<>>

\* A candidate for the next block: the block and the hash of the block it
\* was built on (Block::previous_hash).
Candidate(block, previous_hash) == [block |-> block, previous_hash |-> previous_hash]
NoCandidate == Candidate(NoBlock, NoHash)

\* The transmission ids the certificates of a sub-DAG refer to, here a
\* transaction and a solution.  A certificate is the set of ids it endorses;
\* a sub-DAG is a round and a non-empty set of certificates; the supplied
\* IndexMap is given by its keys.
SubdagIds == {[kind |-> "Transaction", id |-> 0], [kind |-> "Solution", id |-> 0]}
Certificates == (SUBSET SubdagIds) \ {{}}
Subdags == [round : CandidateRounds, certificates : (SUBSET Certificates) \ {{}}]
NoSubdag == [round |-> -1, certificates |-> {}]
TransmissionMaps == SUBSET SubdagIds
ReferencedIds(subdag) == UNION subdag.certificates

\* Ledger::prepare_advance_to_next_quorum_block: a function of the ledger
\* snapshot, the sub-DAG and the transmissions.  The block is built on the
\* head; it starts a new committee when a transaction is committed on an even
\* round after the current committee's.
LedgerPrepare(L, subdag, transmissions, fault) ==
    IF fault
    THEN [err |-> "StorageError", val |-> NoCandidate]
    ELSE IF ~(ReferencedIds(subdag) \subseteq transmissions)
    THEN [err |-> "IncompleteTransmissions", val |-> NoCandidate]
    ELSE [err |-> "None",
          val |-> Candidate(
              [height |-> LedgerLatestHeight(L) + 1,
               round |-> subdag.round,
               installs |-> /\ \E id \in ReferencedIds(subdag) : id.kind = "Transaction"
                            /\ subdag.round % 2 = 0
                            /\ subdag.round > LedgerLatestCommittee(L).starting_round],
              Hash(LedgerLatestBlock(L)))]

\* Ledger::check_next_block: the candidate links to the head and is a block
\* the store accepts.
LedgerCheckNextBlock(L, candidate, fault) ==
    IF fault
    THEN ErrUnit("StorageError")
    ELSE IF /\ candidate.previous_hash = Hash(LedgerLatestBlock(L))
            /\ LedgerAccepts(L, candidate.block)
    THEN OkUnit
    ELSE ErrUnit("InvalidBlock")

\* A variant of prepare that stores the block it has built.
prepare_advance_to_next_quorum_block_storing(L, subdag, transmissions, fault) ==
    LET r == LedgerPrepare(L, subdag, transmissions, fault) IN
    [res |-> r,
     ledger |-> IF r.err = "None"
                THEN LedgerAdvanceToNextBlock(L, r.val.block, FALSE).ledger
                ELSE L]

\* prepare_advance_to_next_quorum_block (ledger.rs:311-317).  Returns the
\* result and the ledger after the call.
prepare_advance_to_next_quorum_block(L, subdag, transmissions, fault) ==
    [res |-> LedgerPrepare(L, subdag, transmissions, fault), ledger |-> L]

\* A variant that applies the candidate it has accepted.
check_next_block_applying(L, candidate, fault) ==
    LET res == LedgerCheckNextBlock(L, candidate, fault) IN
    [res |-> res,
     ledger |-> IF res.err = "None"
                THEN LedgerAdvanceToNextBlock(L, candidate.block, FALSE).ledger
                ELSE L]

\* check_next_block (ledger.rs:305-307)
check_next_block(L, candidate, fault) ==
    [res |-> LedgerCheckNextBlock(L, candidate, fault), ledger |-> L]

----------------------------------------------------------------------------
(* The stores of the ledger collaborator and the read accessors.           *)

\* Every block after the first commits one certificate, one solution and one
\* transaction, each identified here by the height of its block.
StoredBlocks(L) == {L.blocks[i] : i \in 1..Len(L.blocks)}
StoredHeights(L) == {b.height : b \in StoredBlocks(L)}
StoredIds(L) == StoredHeights(L) \ {0}
BlockAt(L, height) == CHOOSE b \in StoredBlocks(L) : b.height = height

\* The keys of a store and the value a key maps to.
TableKeys(L, table) ==
    CASE table = "height" -> {Hash(b) : b \in StoredBlocks(L)}
      [] table \in {"hash", "block"} -> StoredHeights(L)
      [] OTHER -> StoredIds(L)

TableValue(L, table, key) ==
    CASE table = "height" -> (CHOOSE b \in StoredBlocks(L) : Hash(b) = key).height
      [] table = "hash" -> Hash(BlockAt(L, key))
      [] table = "block" -> BlockAt(L, key)
      [] OTHER -> [kind |-> table, id |-> key]

\* A lookup by key (Ledger::get_height, get_hash, get_block, get_solution,
\* get_unconfirmed_transaction): Result<T>, NotFound for an absent key.
LedgerGet(L, table, key, fault) ==
    IF fault
    THEN [err |-> "StorageError", val |-> <<>>]
    ELSE IF key \notin TableKeys(L, table)
    THEN [err |-> "NotFound", val |-> <<>>]
    ELSE [err |-> "None", val |-> <<TableValue(L, table, key)>>]

\* Ledger::get_batch_certificate: Result<Option<BatchCertificate>>.
LedgerGetBatchCertificate(L, key, fault) ==
    IF fault
    THEN [err |-> "StorageError", some |-> FALSE, val |-> <<>>]
    ELSE IF key \notin TableKeys(L, "certificate")
    THEN [err |-> "None", some |-> FALSE, val |-> <<>>]
    ELSE [err |-> "None", some |-> TRUE, val |-> <<TableValue(L, "certificate", key)>>]

\* An existence query (Ledger::contains_block_height, contains_certificate,
\* contains_puzzle_commitment, contains_transaction_id): Result<bool>.
LedgerContains(L, table, key, fault) ==
    IF fault
    THEN [err |-> "StorageError", val |-> FALSE]
    ELSE [err |-> "None", val |-> key \in TableKeys(L, table)]

\* Ledger::get_blocks: the stored blocks of the range start..(end - 1).
LedgerGetBlocks(L, start, end, fault) ==
    IF fault
    THEN [err |-> "StorageError", val |-> <<>>]
    ELSE [err |-> "None", val |-> <<{b \in StoredBlocks(L) : start <= b.height /\ b.height < end}>>]

\* latest_round, latest_block_height, latest_block (ledger.rs:91-103)
latest_round(L) == LedgerLatestRound(L)
latest_block_height(L) == LedgerLatestHeight(L)
latest_block(L) == LedgerLatestBlock(L)

\* contains_block_height (ledger.rs:106-108): unwrap_or(false)
contains_block_height(L, height, fault) ==
    LET r == LedgerContains(L, "block", height, fault) IN
    IF r.err = "None" THEN r.val ELSE FALSE

\* get_block_height, get_block_hash, get_block (ledger.rs:111-123)
get_block_height(L, hash, fault) == LedgerGet(L, "height", hash, fault)
get_block_hash(L, height, fault) == LedgerGet(L, "hash", height, fault)
get_block(L, height, fault) == LedgerGet(L, "block", height, fault)

\* get_blocks (ledger.rs:127-129)
get_blocks(L, start, end, fault) == LedgerGetBlocks(L, start, end, fault)

\* get_solution, get_unconfirmed_transaction (ledger.rs:132-139)
get_solution(L, solution_id, fault) == LedgerGet(L, "solution", solution_id, fault)
get_unconfirmed_transaction(L, transaction_id, fault) ==
    LedgerGet(L, "transaction", transaction_id, fault)

\* A variant that hands the store's answer on: an absent certificate is a
\* success without a certificate.
get_batch_certificate_lenient(L, certificate_id, fault) ==
    LET r == LedgerGetBatchCertificate(L, certificate_id, fault) IN
    [err |-> r.err, val |-> r.val]

\* get_batch_certificate (ledger.rs:142-148)
get_batch_certificate(L, certificate_id, fault) ==
    LET r == LedgerGetBatchCertificate(L, certificate_id, fault) IN
    IF r.err = "None" /\ r.some
    THEN [err |-> "None", val |-> r.val]
    ELSE IF r.err = "None"
    THEN [err |-> "NotFound", val |-> <<>>]
    ELSE [err |-> r.err, val |-> <<>>]

\* contains_certificate (ledger.rs:189-191)
contains_certificate(L, certificate_id, fault) ==
    LedgerContains(L, "certificate", certificate_id, fault)

\* contains_transmission (ledger.rs:194-200)
contains_transmission(L, transmission_id, fault) ==
    CASE transmission_id.kind = "Ratification" -> [err |-> "None", val |-> FALSE]
      [] transmission_id.kind = "Solution" ->
            LedgerContains(L, "solution", transmission_id.id, fault)
      [] transmission_id.kind = "Transaction" ->
            LedgerContains(L, "transaction", transmission_id.id, fault)

----------------------------------------------------------------------------
(* TransmissionCodec: narwhal::Data<T>, either the raw bytes or the object. *)

\* A payload object.  For a transaction `flag` is Transaction::is_fee.
Objects == [body : 0..MaxBody, flag : BOOLEAN]
NoObject == [body |-> -1, flag |-> FALSE]

\* The encoding of an object is <<body, flag bit>>; any other byte string is
\* malformed.
Bit(b) == IF b THEN 1 ELSE 0
Encode(obj) == <<obj.body, Bit(obj.flag)>>
ByteStrings ==
    {<<>>} \cup {<<b>> : b \in 0..MaxBody} \cup {Encode(o) : o \in Objects}

\* T::from_bytes_le
FromBytes(bytes) ==
    IF Len(bytes) = 2
    THEN [err |-> "None", val |-> [body |-> bytes[1], flag |-> bytes[2] = 1]]
    ELSE [err |-> "CodecError", val |-> NoObject]

Buffer(bytes) == [form |-> "Buffer", bytes |-> bytes, obj |-> NoObject]
Object(obj) == [form |-> "Object", bytes |-> <<>>, obj |-> obj]
NoData == [form |-> "None", bytes |-> <<>>, obj |-> NoObject]
Datas == {Buffer(b) : b \in ByteStrings} \cup {Object(o) : o \in Objects}

\* Data::deserialize_blocking: the object itself when already materialised.
deserialize_blocking(data) ==
    IF data.form = "Object"
    THEN [err |-> "None", val |-> data.obj]
    ELSE FromBytes(data.bytes)

\* Transaction::id and ProverSolution::commitment: the content-derived identity.
ComputedId(obj) == 2 * obj.body + Bit(obj.flag)
Ids == 0..(2 * MaxBody + 1)

\* Transaction::is_fee
is_fee(obj) == obj.flag

Kinds == {"Ratification", "Solution", "Transaction"}
RatificationID == [kind |-> "Ratification", id |-> 0]
NoID == [kind |-> "None", id |-> -1]
TransmissionIDs ==
    {RatificationID} \cup [kind : {"Solution", "Transaction"}, id : Ids]
RatificationTransmission == [kind |-> "Ratification", data |-> NoData]
Transmissions ==
    {RatificationTransmission} \cup [kind : {"Solution", "Transaction"}, data : Datas]

----------------------------------------------------------------------------
(* TransmissionValidator.                                                  *)

\* Variants of the same-kind arms with a fault seeded: only raw bytes are
\* accepted, the identity comparison is left out.
EnsureSameKindBytesOnly(expected, t) ==
    LET decoded == FromBytes(t.data.bytes) IN
    IF decoded.err # "None"
    THEN [res |-> ErrUnit("CodecError"), transmission |-> t, deserialized |-> TRUE]
    ELSE IF ComputedId(decoded.val) # expected
         THEN [res |-> ErrUnit("IdentityMismatch"), transmission |-> t, deserialized |-> TRUE]
         ELSE [res |-> OkUnit,
               transmission |-> [t EXCEPT !.data = Object(decoded.val)],
               deserialized |-> TRUE]

EnsureSameKindUnchecked(expected, t) ==
    LET decoded == deserialize_blocking(t.data) IN
    IF decoded.err # "None"
    THEN [res |-> ErrUnit("CodecError"), transmission |-> t, deserialized |-> TRUE]
    ELSE [res |-> OkUnit,
          transmission |-> [t EXCEPT !.data = Object(decoded.val)],
          deserialized |-> TRUE]

\* The Transaction/Transaction and Solution/Solution arms of
\* ensure_transmission_id_matches (ledger.rs:210-247).
EnsureSameKind(expected, t) ==
    LET decoded == deserialize_blocking(t.data) IN
    IF decoded.err # "None"
    THEN [res |-> ErrUnit("CodecError"), transmission |-> t, deserialized |-> TRUE]
    ELSE IF ComputedId(decoded.val) # expected
         THEN [res |-> ErrUnit("IdentityMismatch"), transmission |-> t, deserialized |-> TRUE]
         ELSE [res |-> OkUnit,
               transmission |-> [t EXCEPT !.data = Object(decoded.val)],
               deserialized |-> TRUE]

\* A variant in which the payload variants are not told apart: every pair
\* other than Ratification/Ratification is decoded and compared.
ensure_transmission_id_matches_any_kind(tid, t) ==
    IF tid.kind = "Ratification" /\ t.kind = "Ratification"
    THEN [res |-> OkUnit, transmission |-> t, deserialized |-> FALSE]
    ELSE IF tid.kind # "Ratification" /\ t.kind # "Ratification"
    THEN EnsureSameKind(tid.id, t)
    ELSE [res |-> ErrUnit("TypeMismatch"), transmission |-> t, deserialized |-> FALSE]

\* ensure_transmission_id_matches (ledger.rs:203-254).  Returns the result,
\* the caller's transmission after the call and whether the payload was
\* deserialized.
ensure_transmission_id_matches(tid, t) ==
    IF tid.kind = "Ratification" /\ t.kind = "Ratification"
    THEN [res |-> OkUnit, transmission |-> t, deserialized |-> FALSE]
    ELSE IF tid.kind = "Transaction" /\ t.kind = "Transaction"
    THEN EnsureSameKind(tid.id, t)
    ELSE IF tid.kind = "Solution" /\ t.kind = "Solution"
    THEN EnsureSameKind(tid.id, t)
    ELSE [res |-> ErrUnit("TypeMismatch"), transmission |-> t, deserialized |-> FALSE]

\* A variant that tests the fee tag before the identity.
check_transaction_basic_fee_first(transaction_id, data, verdict) ==
    LET decoded == deserialize_blocking(data) IN
    IF decoded.err # "None"
    THEN [res |-> ErrUnit("CodecError"), checkerCalled |-> FALSE]
    ELSE IF is_fee(decoded.val)
    THEN [res |-> ErrUnit("UnexpectedFeeTransaction"), checkerCalled |-> FALSE]
    ELSE IF transaction_id # ComputedId(decoded.val)
    THEN [res |-> ErrUnit("IdMismatch"), checkerCalled |-> FALSE]
    ELSE [res |-> ErrUnit(verdict), checkerCalled |-> TRUE]

\* check_transaction_basic (ledger.rs:284-302).  `verdict` is the result of
\* Ledger::check_transaction_basic.  The offloaded closures (spawn_blocking!)
\* hand their result back unchanged.  Returns the result and whether the
\* ledger's checker was called.
check_transaction_basic(transaction_id, data, verdict) ==
    LET decoded == deserialize_blocking(data) IN
    IF decoded.err # "None"
    THEN [res |-> ErrUnit("CodecError"), checkerCalled |-> FALSE]
    ELSE IF transaction_id # ComputedId(decoded.val)
    THEN [res |-> ErrUnit("IdMismatch"), checkerCalled |-> FALSE]
    ELSE IF is_fee(decoded.val)
    THEN [res |-> ErrUnit("UnexpectedFeeTransaction"), checkerCalled |-> FALSE]
    ELSE [res |-> ErrUnit(verdict), checkerCalled |-> TRUE]

\* The puzzle parameters of the ledger head: the epoch challenge is renewed
\* every BlocksPerEpoch blocks, the proof target with every block.
BlocksPerEpoch == 2
LedgerLatestEpochChallenge(L) == LedgerLatestHeight(L) \div BlocksPerEpoch
LedgerLatestProofTarget(L) == LedgerLatestHeight(L)

\* The outcomes of ProverSolution::verify: Ok(true), Ok(false), Err.
VerifyOutcomes == {"true", "false", "error"}

\* A variant that takes any completed verification for a valid solution.
CheckSolutionVerdictIgnored(puzzle_commitment, data, epochFault, verify) ==
    LET decoded == deserialize_blocking(data) IN
    IF decoded.err # "None"
    THEN [res |-> ErrUnit("CodecError"), verifyCalled |-> FALSE]
    ELSE IF puzzle_commitment # ComputedId(decoded.val)
    THEN [res |-> ErrUnit("ClaimMismatch"), verifyCalled |-> FALSE]
    ELSE IF epochFault
    THEN [res |-> ErrUnit("StorageError"), verifyCalled |-> FALSE]
    ELSE IF verify = "error"
    THEN [res |-> ErrUnit("VerificationFailed"), verifyCalled |-> TRUE]
    ELSE [res |-> OkUnit, verifyCalled |-> TRUE]

\* The decisions of check_solution_basic (ledger.rs:262-280), given whether
\* Ledger::latest_epoch_challenge fails and the outcome of the verification.
CheckSolution(puzzle_commitment, data, epochFault, verify) ==
    LET decoded == deserialize_blocking(data) IN
    IF decoded.err # "None"
    THEN [res |-> ErrUnit("CodecError"), verifyCalled |-> FALSE]
    ELSE IF puzzle_commitment # ComputedId(decoded.val)
    THEN [res |-> ErrUnit("ClaimMismatch"), verifyCalled |-> FALSE]
    ELSE IF epochFault
    THEN [res |-> ErrUnit("StorageError"), verifyCalled |-> FALSE]
    ELSE IF verify = "error"
    THEN [res |-> ErrUnit("VerificationFailed"), verifyCalled |-> TRUE]
    ELSE IF verify # "true"
    THEN [res |-> ErrUnit("VerificationFailed"), verifyCalled |-> TRUE]
    ELSE [res |-> OkUnit, verifyCalled |-> TRUE]

\* check_solution_basic (ledger.rs:257-281) run without interruption: the
\* epoch challenge and the proof target are read from the same ledger.
check_solution_basic(L, puzzle_commitment, data, epochFault, verify) ==
    LET r == CheckSolution(puzzle_commitment, data, epochFault, verify) IN
    [res |-> r.res, verifyCalled |-> r.verifyCalled,
     challenge |-> IF r.verifyCalled THEN LedgerLatestEpochChallenge(L) ELSE -1,
     target |-> IF r.verifyCalled THEN LedgerLatestProofTarget(L) ELSE -1]

----------------------------------------------------------------------------
(* The state machine.                                                      *)

NoCall ==
    [op |-> "none", round |-> 0, fault |-> "none", queried |-> 0,
     block |-> NoBlock, flag |-> FALSE, tid |-> NoID, data |-> NoData,
     verdict |-> "None", err |-> "None", committee |-> NoCommittee,
     preLedger |-> <<>>, preTransmission |-> RatificationTransmission,
     preCheckedId |-> NoID, appendInvoked |-> FALSE, deserialized |-> FALSE,
     checkerCalled |-> FALSE, verify |-> "true", verifyCalled |-> FALSE,
     challenge |-> -1, target |-> -1, subdag |-> NoSubdag, transmissions |-> {},
     candidate |-> NoCandidate, key |-> <<>>, val |-> <<>>, bool |-> FALSE,
     raised |-> FALSE]

\* The ledger handed to CoreLedgerService::new (ledger.rs:48-51): one block,
\* whose committee starts at an even round.
GenesisBlock(round) == [height |-> 0, round |-> round, installs |-> TRUE]
GenesisLedger(round) ==
    [blocks |-> <<GenesisBlock(round)>>, committees |-> {CommitteeOf(GenesisBlock(round))}]
GenesisRounds == {r \in 0..MaxGenesisRound : r % 2 = 0}

\* The concurrent tasks that commit, and an attempt not begun.
Attempts == {"a", "b"}

IdleAttempt ==
    [pc |-> "Idle", candidate |-> NoCandidate, checkedHead |-> NoHash, seen |-> FALSE,
     fault |-> FALSE, err |-> "None", advanced |-> FALSE, preHead |-> NoBlock,
     flagAtAppend |-> FALSE, changed |-> FALSE]

IdleSolver == [pc |-> "Idle", challenge |-> -1, target |-> -1]

\* first, last: the ledger at the first and at the last read of the call.
IdleResolver ==
    [pc |-> "Idle", round |-> 0, err |-> "None", committee |-> NoCommittee,
     first |-> <<>>, last |-> <<>>]

Init ==
    /\ ledger \in {GenesisLedger(r) : r \in GenesisRounds}
    /\ shutdown = FALSE
    /\ transmission = RatificationTransmission
    /\ checkedId = NoID
    /\ call = NoCall
    /\ attempt = [p \in Attempts |-> IdleAttempt]
    /\ base = ledger
    /\ solver = IdleSolver
    /\ resolver = IdleResolver

\* The well-formed candidate blocks a caller may pass.
CandidateBlocks == [height : 0..MaxHeight, round : CandidateRounds, installs : BOOLEAN]

\* The Ctrl-C handler, outside the service, sets the flag; nothing clears it.
SetShutdown ==
    /\ call = NoCall
    /\ ~shutdown
    /\ shutdown' = TRUE
    /\ UNCHANGED <<ledger, transmission, checkedId, call, tasks>>

\* The caller has the result of its call and is free to make the next one.
ReturnToCaller ==
    /\ call # NoCall
    /\ call' = NoCall
    /\ UNCHANGED <<ledger, shutdown, transmission, checkedId, tasks>>

AdvanceToNextBlock ==
    /\ call = NoCall
    /\ \E block \in CandidateBlocks, fault \in BOOLEAN :
           LET r == advance_to_next_block(ledger, shutdown, block, fault) IN
           /\ ledger' = r.ledger
           /\ call' = [NoCall EXCEPT !.op = "advance_to_next_block", !.block = block,
                                     !.fault = IF fault THEN "append" ELSE "none",
                                     !.flag = shutdown, !.err = r.res.err,
                                     !.preLedger = <<ledger>>,
                                     !.appendInvoked = r.appendInvoked,
                                     !.raised = /\ ~shutdown
                                                /\ fault \/ ~LedgerAccepts(ledger, block)]
           /\ UNCHANGED <<shutdown, transmission, checkedId, tasks>>

\* Whether a storage call made for a committee query fails: the lookup, or
\* the read of the current committee when the lookup finds nothing.
StorageCallFails(L, round, fault) ==
    \/ fault = "lookup"
    \/ fault = "current" /\ ~LedgerGetCommitteeForRound(L, round).some

StorageFaults == {"none", "lookup", "current"}

GetCommitteeForRound ==
    /\ call = NoCall
    /\ \E round \in QueryRounds, fault \in StorageFaults :
           LET r == get_committee_for_round(ledger, round, fault) IN
           /\ call' = [NoCall EXCEPT !.op = "get_committee_for_round", !.round = round,
                                     !.fault = fault, !.queried = round,
                                     !.raised = StorageCallFails(ledger, round, fault),
                                     !.err = r.err, !.committee = r.val,
                                     !.preLedger = <<ledger>>]
           /\ UNCHANGED <<ledger, shutdown, transmission, checkedId, tasks>>

GetPreviousCommitteeForRound ==
    /\ call = NoCall
    /\ \E round \in QueryRounds, fault \in StorageFaults :
           LET r == get_previous_committee_for_round(ledger, round, fault) IN
           /\ call' = [NoCall EXCEPT !.op = "get_previous_committee_for_round",
                                     !.round = round, !.fault = fault,
                                     !.queried = previous_round(round),
                                     !.raised = StorageCallFails(ledger, previous_round(round), fault),
                                     !.err = r.err, !.committee = r.val,
                                     !.preLedger = <<ledger>>]
           /\ UNCHANGED <<ledger, shutdown, transmission, checkedId, tasks>>

\* The caller obtains a transmission: from the network as bytes, or built
\* locally from an object.
ReceiveTransmission ==
    /\ call = NoCall
    /\ \E t \in Transmissions :
           /\ t # transmission
           /\ transmission' = t
           /\ checkedId' = NoID
           /\ UNCHANGED <<ledger, shutdown, call, tasks>>

EnsureTransmissionIdMatches ==
    /\ call = NoCall
    /\ \E tid \in TransmissionIDs :
           LET r == ensure_transmission_id_matches(tid, transmission) IN
           /\ transmission' = r.transmission
           /\ checkedId' = IF r.res.err = "None" THEN tid ELSE checkedId
           /\ call' = [NoCall EXCEPT !.op = "ensure_transmission_id_matches", !.tid = tid,
                                     !.err = r.res.err, !.preTransmission = transmission,
                                     !.preCheckedId = checkedId,
                                     !.deserialized = r.deserialized]
           /\ UNCHANGED <<ledger, shutdown, tasks>>

CheckerVerdicts == {"None", "InvalidTransaction"}

CheckTransactionBasic ==
    /\ call = NoCall
    /\ \E id \in Ids, data \in Datas, verdict \in CheckerVerdicts :
           LET r == check_transaction_basic(id, data, verdict) IN
           /\ call' = [NoCall EXCEPT !.op = "check_transaction_basic",
                                     !.tid = [kind |-> "Transaction", id |-> id],
                                     !.data = data, !.verdict = verdict,
                                     !.err = r.res.err, !.checkerCalled = r.checkerCalled,
                                     !.raised = r.checkerCalled /\ verdict # "None",
                                     !.preLedger = <<ledger>>]
           /\ UNCHANGED <<ledger, shutdown, transmission, checkedId, tasks>>

CheckSolutionBasic ==
    /\ call = NoCall
    /\ \E id \in Ids, data \in Datas, epochFault \in BOOLEAN, verify \in VerifyOutcomes :
           LET r == check_solution_basic(ledger, id, data, epochFault, verify) IN
           /\ call' = [NoCall EXCEPT !.op = "check_solution_basic",
                                     !.tid = [kind |-> "Solution", id |-> id],
                                     !.data = data, !.verify = verify,
                                     !.fault = IF epochFault THEN "epoch" ELSE "none",
                                     !.err = r.res.err, !.verifyCalled = r.verifyCalled,
                                     !.raised = \/ r.verifyCalled /\ verify = "error"
                                                \/ r.res.err = "StorageError",
                                     !.challenge = r.challenge, !.target = r.target,
                                     !.preLedger = <<ledger>>]
           /\ UNCHANGED <<ledger, shutdown, transmission, checkedId, tasks>>

PrepareAdvanceToNextQuorumBlock ==
    /\ call = NoCall
    /\ \E subdag \in Subdags, transmissions \in TransmissionMaps, fault \in BOOLEAN :
           LET r == prepare_advance_to_next_quorum_block(ledger, subdag, transmissions, fault) IN
           /\ ledger' = r.ledger
           /\ call' = [NoCall EXCEPT !.op = "prepare_advance_to_next_quorum_block",
                                     !.subdag = subdag, !.transmissions = transmissions,
                                     !.fault = IF fault THEN "prepare" ELSE "none",
                                     !.raised = fault,
                                     !.err = r.res.err, !.candidate = r.res.val,
                                     !.preLedger = <<ledger>>]
           /\ UNCHANGED <<shutdown, transmission, checkedId, tasks>>

\* The candidates a caller may ask about: any block, said to be built on the
\* head or on no block of the ledger.
CheckNextBlock ==
    /\ call = NoCall
    /\ \E block \in CandidateBlocks, onHead \in BOOLEAN, fault \in BOOLEAN :
           LET candidate == Candidate(block, IF onHead THEN Hash(LedgerLatestBlock(ledger))
                                                        ELSE NoHash)
               r == check_next_block(ledger, candidate, fault)
           IN /\ ledger' = r.ledger
              /\ call' = [NoCall EXCEPT !.op = "check_next_block", !.block = block,
                                        !.candidate = candidate,
                                        !.fault = IF fault THEN "check" ELSE "none",
                                        !.raised = fault,
                                        !.err = r.res.err, !.preLedger = <<ledger>>]
              /\ UNCHANGED <<shutdown, transmission, checkedId, tasks>>

\* What a read accessor answers to its caller.
Answer(op, key, fault, err, val, bool) ==
    [NoCall EXCEPT !.op = op, !.key = <<key>>,
                   !.fault = IF fault THEN "storage" ELSE "none",
                   !.raised = fault, !.err = err, !.val = val, !.bool = bool]

\* The heights and the ids asked for: those stored and some that are not.
HeightKeys == 0..(MaxHeight + 1)
IdKeys == 0..(MaxHeight + 1)
HashKeys(L) == {Hash(b) : b \in StoredBlocks(L)} \cup {NoHash}

LatestRound ==
    /\ call = NoCall
    /\ call' = Answer("latest_round", 0, FALSE, "None", <<latest_round(ledger)>>, FALSE)
    /\ UNCHANGED <<ledger, shutdown, transmission, checkedId, tasks>>

LatestBlockHeight ==
    /\ call = NoCall
    /\ call' = Answer("latest_block_height", 0, FALSE, "None",
                      <<latest_block_height(ledger)>>, FALSE)
    /\ UNCHANGED <<ledger, shutdown, transmission, checkedId, tasks>>

LatestBlock ==
    /\ call = NoCall
    /\ call' = Answer("latest_block", 0, FALSE, "None", <<latest_block(ledger)>>, FALSE)
    /\ UNCHANGED <<ledger, shutdown, transmission, checkedId, tasks>>

ContainsBlockHeight ==
    /\ call = NoCall
    /\ \E height \in HeightKeys, fault \in BOOLEAN :
           call' = Answer("contains_block_height", height, fault, "None", <<>>,
                          contains_block_height(ledger, height, fault))
    /\ UNCHANGED <<ledger, shutdown, transmission, checkedId, tasks>>

GetBlockHeight ==
    /\ call = NoCall
    /\ \E hash \in HashKeys(ledger), fault \in BOOLEAN :
           LET r == get_block_height(ledger, hash, fault)
           IN call' = Answer("get_block_height", hash, fault, r.err, r.val, FALSE)
    /\ UNCHANGED <<ledger, shutdown, transmission, checkedId, tasks>>

GetBlockHash ==
    /\ call = NoCall
    /\ \E height \in HeightKeys, fault \in BOOLEAN :
           LET r == get_block_hash(ledger, height, fault)
           IN call' = Answer("get_block_hash", height, fault, r.err, r.val, FALSE)
    /\ UNCHANGED <<ledger, shutdown, transmission, checkedId, tasks>>

GetBlock ==
    /\ call = NoCall
    /\ \E height \in HeightKeys, fault \in BOOLEAN :
           LET r == get_block(ledger, height, fault)
           IN call' = Answer("get_block", height, fault, r.err, r.val, FALSE)
    /\ UNCHANGED <<ledger, shutdown, transmission, checkedId, tasks>>

GetBlocks ==
    /\ call = NoCall
    /\ \E start \in HeightKeys, end \in HeightKeys, fault \in BOOLEAN :
           LET r == get_blocks(ledger, start, end, fault)
           IN /\ start <= end
              /\ call' = Answer("get_blocks", <<start, end>>, fault, r.err, r.val, FALSE)
    /\ UNCHANGED <<ledger, shutdown, transmission, checkedId, tasks>>

GetSolution ==
    /\ call = NoCall
    /\ \E id \in IdKeys, fault \in BOOLEAN :
           LET r == get_solution(ledger, id, fault)
           IN call' = Answer("get_solution", id, fault, r.err, r.val, FALSE)
    /\ UNCHANGED <<ledger, shutdown, transmission, checkedId, tasks>>

GetUnconfirmedTransaction ==
    /\ call = NoCall
    /\ \E id \in IdKeys, fault \in BOOLEAN :
           LET r == get_unconfirmed_transaction(ledger, id, fault)
           IN call' = Answer("get_unconfirmed_transaction", id, fault, r.err, r.val, FALSE)
    /\ UNCHANGED <<ledger, shutdown, transmission, checkedId, tasks>>

GetBatchCertificate ==
    /\ call = NoCall
    /\ \E id \in IdKeys, fault \in BOOLEAN :
           LET r == get_batch_certificate(ledger, id, fault)
           IN call' = Answer("get_batch_certificate", id, fault, r.err, r.val, FALSE)
    /\ UNCHANGED <<ledger, shutdown, transmission, checkedId, tasks>>

CurrentCommittee ==
    /\ call = NoCall
    /\ \E fault \in BOOLEAN :
           LET r == current_committee(ledger, IF fault THEN "current" ELSE "none")
           IN call' = Answer("current_committee", 0, fault, r.err, <<r.val>>, FALSE)
    /\ UNCHANGED <<ledger, shutdown, transmission, checkedId, tasks>>

ContainsCertificate ==
    /\ call = NoCall
    /\ \E id \in IdKeys, fault \in BOOLEAN :
           LET r == contains_certificate(ledger, id, fault)
           IN call' = Answer("contains_certificate", id, fault, r.err, <<>>, r.val)
    /\ UNCHANGED <<ledger, shutdown, transmission, checkedId, tasks>>

\* For a Ratification id no store is asked, so none fails.
ContainsTransmission ==
    /\ call = NoCall
    /\ \E kind \in Kinds, id \in IdKeys, fault \in BOOLEAN :
           LET tid == [kind |-> kind, id |-> id]
               r == contains_transmission(ledger, tid, fault)
           IN /\ kind = "Ratification" => (id = 0 /\ ~fault)
              /\ call' = Answer("contains_transmission", tid, fault, r.err, <<>>, r.val)
    /\ UNCHANGED <<ledger, shutdown, transmission, checkedId, tasks>>

\* Concurrent commit attempts, each
\* Proposed -> Validated -> Committed | Rejected | Aborted.
Terminal == {"Committed", "Rejected", "Aborted"}

\* Task p calls prepare_advance_to_next_quorum_block (ledger.rs:311-317).
Propose(p) ==
    /\ attempt[p].pc = "Idle"
    /\ LedgerLatestHeight(ledger) < MaxHeight
    /\ \E subdag \in Subdags, transmissions \in TransmissionMaps :
           LET r == prepare_advance_to_next_quorum_block(ledger, subdag, transmissions, FALSE)
           IN /\ ledger' = r.ledger
              /\ attempt' = [attempt EXCEPT ![p] =
                     IF r.res.err = "None"
                     THEN [IdleAttempt EXCEPT !.pc = "Proposed", !.candidate = r.res.val]
                     ELSE [IdleAttempt EXCEPT !.pc = "Rejected", !.err = r.res.err]]
    /\ UNCHANGED <<shutdown, base, solver, resolver, caller>>

\* Task p calls check_next_block on its candidate (ledger.rs:305-307).
Validate(p) ==
    /\ attempt[p].pc = "Proposed"
    /\ LET r == check_next_block(ledger, attempt[p].candidate, FALSE)
       IN /\ ledger' = r.ledger
          /\ attempt' = [attempt EXCEPT ![p] =
                 IF r.res.err = "None"
                 THEN [@ EXCEPT !.pc = "Validated",
                                !.checkedHead = Hash(LedgerLatestBlock(ledger))]
                 ELSE [@ EXCEPT !.pc = "Rejected", !.err = r.res.err]]
    /\ UNCHANGED <<shutdown, base, solver, resolver, caller>>

\* A variant that takes the flag for unset without loading it.
ObserveShutdownUnset(p) ==
    /\ attempt[p].pc = "Validated"
    /\ attempt' = [attempt EXCEPT ![p].pc = "Observed", ![p].seen = FALSE]
    /\ UNCHANGED <<ledger, shutdown, base, solver, resolver, caller>>

\* Task p enters advance_to_next_block and loads the flag (ledger.rs:323).
ObserveShutdown(p) ==
    /\ attempt[p].pc = "Validated"
    /\ attempt' = [attempt EXCEPT ![p].pc = "Observed", ![p].seen = shutdown]
    /\ UNCHANGED <<ledger, shutdown, base, solver, resolver, caller>>

\* Task p bails on the flag it has loaded or has the ledger append its
\* block (ledger.rs:323-329); the ledger appends in one step.
Advance(p) ==
    /\ attempt[p].pc = "Observed"
    /\ \E fault \in BOOLEAN :
           LET a == attempt[p]
               r == advance_to_next_block(AppendTarget(ledger, base), a.seen,
                                          a.candidate.block, fault)
           IN /\ a.seen => ~fault
              /\ ledger' = r.ledger
              /\ attempt' = [attempt EXCEPT ![p] =
                     [a EXCEPT !.pc = CASE r.res.err = "None" -> "Committed"
                                        [] r.res.err = "Shutdown" -> "Aborted"
                                        [] OTHER -> "Rejected",
                               !.fault = fault,
                               !.err = r.res.err,
                               !.advanced = TRUE,
                               !.preHead = LedgerLatestBlock(ledger),
                               !.flagAtAppend = shutdown,
                               !.changed = (r.ledger # ledger)]]
    /\ UNCHANGED <<shutdown, base, solver, resolver, caller>>

\* No attempt is in flight: the tasks start over from the ledger as it is.
Retire ==
    /\ \A p \in Attempts : attempt[p].pc \in Terminal \cup {"Idle"}
    /\ \E p \in Attempts : attempt[p].pc \in Terminal
    /\ attempt' = [p \in Attempts |-> IdleAttempt]
    /\ base' = ledger
    /\ UNCHANGED <<ledger, shutdown, solver, resolver, caller>>

\* A task inside check_solution_basic, the solution deserialized and its
\* commitment matched, while other tasks commit.
\* self.ledger.latest_epoch_challenge()? (ledger.rs:272)
ReadEpochChallenge ==
    /\ solver.pc = "Idle"
    /\ \E fault \in BOOLEAN :
           solver' = IF fault
                     THEN [IdleSolver EXCEPT !.pc = "Failed"]
                     ELSE [IdleSolver EXCEPT !.pc = "Challenge",
                                             !.challenge = LedgerLatestEpochChallenge(ledger)]
    /\ UNCHANGED <<ledger, shutdown, attempt, base, resolver, caller>>

\* self.ledger.latest_proof_target() (ledger.rs:274)
ReadProofTarget ==
    /\ solver.pc = "Challenge"
    /\ solver' = [solver EXCEPT !.pc = "Target", !.target = LedgerLatestProofTarget(ledger)]
    /\ UNCHANGED <<ledger, shutdown, attempt, base, resolver, caller>>

\* solution.verify(key, epoch_challenge, proof_target) (ledger.rs:277)
VerifySolution ==
    /\ solver.pc = "Target"
    /\ solver' = [solver EXCEPT !.pc = "Verified"]
    /\ UNCHANGED <<ledger, shutdown, attempt, base, resolver, caller>>

\* check_solution_basic returns (ledger.rs:273, 278-280).
FinishCheck ==
    /\ solver.pc \in {"Verified", "Failed"}
    /\ solver' = IdleSolver
    /\ UNCHANGED <<ledger, shutdown, attempt, base, resolver, caller>>

\* A task inside get_committee_for_round while other tasks commit.
\* self.ledger.get_committee_for_round(round)? (ledger.rs:158-160)
LookupCommittee ==
    /\ resolver.pc = "Idle"
    /\ \E round \in CandidateRounds :
           LET found == LedgerGetCommitteeForRound(ledger, round) IN
           resolver' = IF found.some
                       THEN [IdleResolver EXCEPT !.pc = "Done", !.round = round,
                                                 !.committee = found.val,
                                                 !.first = <<ledger>>, !.last = <<ledger>>]
                       ELSE [IdleResolver EXCEPT !.pc = "Fallback", !.round = round,
                                                 !.first = <<ledger>>]
    /\ UNCHANGED <<ledger, shutdown, attempt, base, solver, caller>>

\* self.current_committee()? and the comparison with the round
\* (ledger.rs:164-169)
ReadCurrentCommittee ==
    /\ resolver.pc = "Fallback"
    /\ LET current == current_committee(ledger, "none") IN
       resolver' = IF current.val.starting_round <= resolver.round
                   THEN [resolver EXCEPT !.pc = "Done", !.committee = current.val,
                                         !.last = <<ledger>>]
                   ELSE [resolver EXCEPT !.pc = "Done", !.err = "RoundTooOld",
                                         !.last = <<ledger>>]
    /\ UNCHANGED <<ledger, shutdown, attempt, base, solver, caller>>

\* get_committee_for_round returns.
ReturnCommittee ==
    /\ resolver.pc = "Done"
    /\ resolver' = IdleResolver
    /\ UNCHANGED <<ledger, shutdown, attempt, base, solver, caller>>

\* The commit pipeline and the committee resolver.
Next ==
    \/ SetShutdown
    \/ AdvanceToNextBlock
    \/ GetCommitteeForRound
    \/ GetPreviousCommitteeForRound
    \/ ReturnToCaller

Spec == Init /\ [][Next]_vars

\* The transmission validator.
NextValidation ==
    \/ ReceiveTransmission
    \/ EnsureTransmissionIdMatches
    \/ CheckTransactionBasic
    \/ CheckSolutionBasic
    \/ ReturnToCaller

SpecValidation == Init /\ [][NextValidation]_vars

\* Tasks that commit concurrently while the flag may be set.
NextCommit ==
    \/ SetShutdown
    \/ \E p \in Attempts : Propose(p)
    \/ \E p \in Attempts : Validate(p)
    \/ \E p \in Attempts : ObserveShutdown(p)
    \/ \E p \in Attempts : Advance(p)
    \/ Retire

SpecCommit == Init /\ [][NextCommit]_vars

\* A solution check in one task while another task commits blocks.
NextSolution ==
    \/ AdvanceToNextBlock
    \/ ReturnToCaller
    \/ ReadEpochChallenge
    \/ ReadProofTarget
    \/ VerifySolution
    \/ FinishCheck

SpecSolution == Init /\ [][NextSolution]_vars

\* A committee lookup in one task while another task commits blocks.
NextResolver ==
    \/ AdvanceToNextBlock
    \/ ReturnToCaller
    \/ LookupCommittee
    \/ ReadCurrentCommittee
    \/ ReturnCommittee

SpecResolver == Init /\ [][NextResolver]_vars

\* The whole contract, called by one caller.
NextFacade ==
    \/ SetShutdown
    \/ AdvanceToNextBlock
    \/ PrepareAdvanceToNextQuorumBlock
    \/ CheckNextBlock
    \/ GetCommitteeForRound
    \/ GetPreviousCommitteeForRound
    \/ CurrentCommittee
    \/ CheckTransactionBasic
    \/ CheckSolutionBasic
    \/ LatestRound
    \/ LatestBlockHeight
    \/ LatestBlock
    \/ ContainsBlockHeight
    \/ GetBlockHeight
    \/ GetBlockHash
    \/ GetBlock
    \/ GetBlocks
    \/ GetSolution
    \/ GetUnconfirmedTransaction
    \/ GetBatchCertificate
    \/ ContainsCertificate
    \/ ContainsTransmission
    \/ ReturnToCaller

SpecFacade == Init /\ [][NextFacade]_vars

----------------------------------------------------------------------------
(* The properties.                                                         *)

IsCall(op) == call.op = op
PreLedger == call.preLedger[1]

\* C1: once the shutdown flag is set, advance_to_next_block returns Shutdown
\* for any candidate block, leaves the ledger head (height and latest block)
\* as it was and does not invoke the ledger's append.
C1_ShutdownRefusesAdvance ==
    (IsCall("advance_to_next_block") /\ call.flag) =>
        /\ call.err = "Shutdown"
        /\ LedgerLatestHeight(ledger) = LedgerLatestHeight(PreLedger)
        /\ LedgerLatestBlock(ledger) = LedgerLatestBlock(PreLedger)
        /\ ledger = PreLedger
        /\ ~call.appendInvoked

\* A block the ledger would have accepted is refused because of the flag.
C1_Witness ==
    /\ IsCall("advance_to_next_block")
    /\ call.flag
    /\ call.err = "Shutdown"
    /\ LedgerAccepts(ledger, call.block)

\* C2: a successful advance_to_next_block raises the head height by exactly
\* one, a failed one (Shutdown or storage error) leaves it unchanged, and in
\* no step does the height decrease or rise by more than one.
C2_AdvanceResult ==
    IsCall("advance_to_next_block") =>
        LedgerLatestHeight(ledger) =
            LedgerLatestHeight(PreLedger) + (IF call.err = "None" THEN 1 ELSE 0)

C2_HeightStep ==
    LedgerLatestHeight(ledger)' \in
        {LedgerLatestHeight(ledger), LedgerLatestHeight(ledger) + 1}

C2_HeightByOne == []C2_AdvanceResult /\ [][C2_HeightStep]_vars

\* The second commit in a row has succeeded.
C2_Witness ==
    /\ IsCall("advance_to_next_block")
    /\ call.err = "None"
    /\ LedgerLatestHeight(ledger) = 2
    /\ LedgerLatestHeight(PreLedger) = 1

\* C3: for a round at or above the earliest stored committee's starting
\* round, get_committee_for_round returns the stored committee with the
\* greatest starting round not above the round (the storage not failing).
C3_GreatestStartingRound ==
    (/\ IsCall("get_committee_for_round")
     /\ call.fault = "none"
     /\ call.round >= EarliestStartingRound(ledger)) =>
        /\ call.err = "None"
        /\ call.committee \in ledger.committees
        /\ call.committee.starting_round <= call.round
        /\ \A c \in ledger.committees :
            c.starting_round <= call.round =>
                c.starting_round <= call.committee.starting_round

\* The round lies between two stored committees: an older and a newer
\* committee exist beside the one returned.
C3_Witness ==
    /\ IsCall("get_committee_for_round")
    /\ call.err = "None"
    /\ \E c \in ledger.committees : c.starting_round > call.round
    /\ \E c \in ledger.committees : c.starting_round < call.committee.starting_round

\* C4: for a round at or above the current committee's starting round, also
\* beyond the ledger's latest round, get_committee_for_round succeeds with
\* the committee current_committee returns.
C4_CurrentCommitteeFromItsStart ==
    (/\ IsCall("get_committee_for_round")
     /\ call.fault = "none"
     /\ call.round >= LedgerLatestCommittee(ledger).starting_round) =>
        /\ call.err = "None"
        /\ call.committee = current_committee(ledger, "none").val

\* The single committee of starting round 0 is returned for round 100.
C4_Witness ==
    /\ IsCall("get_committee_for_round")
    /\ ledger.committees = {CommitteeOf(GenesisBlock(0))}
    /\ call.round = FarRound
    /\ call.round > LedgerLatestRound(ledger)
    /\ call.err = "None"
    /\ call.committee = CommitteeOf(GenesisBlock(0))

\* C5: for a round below the earliest stored committee's starting round,
\* get_committee_for_round fails RoundTooOld and returns no committee (the
\* storage not failing).
C5_RoundTooOld ==
    (/\ IsCall("get_committee_for_round")
     /\ call.fault = "none"
     /\ call.round < EarliestStartingRound(ledger)) =>
        /\ call.err = "RoundTooOld"
        /\ call.committee = NoCommittee

C5_Witness ==
    /\ IsCall("get_committee_for_round")
    /\ call.fault = "none"
    /\ call.round < EarliestStartingRound(ledger)
    /\ call.err = "RoundTooOld"

\* C6 as stated: get_previous_committee_for_round(r) returns the result of
\* get_committee_for_round(p) with p = r - 1 for even r and p = r - 2 for
\* odd r.
C6_ReferenceRoundAsStated ==
    IsCall("get_previous_committee_for_round") =>
        LET p == IF call.round % 2 = 0 THEN call.round - 1 ELSE call.round - 2
            r == get_committee_for_round(ledger, p, call.fault)
        IN /\ call.queried = p
           /\ call.err = r.err
           /\ call.committee = r.val

\* C6, amended: the reference round is r - 1 for even r and r - 2 for odd r,
\* but never below 0: rounds 0 and 1 refer to round 0.
C6_ReferenceRoundSaturating ==
    IsCall("get_previous_committee_for_round") =>
        LET below == IF call.round % 2 = 0 THEN call.round - 1 ELSE call.round - 2
            p == IF below < 0 THEN 0 ELSE below
            r == get_committee_for_round(ledger, p, call.fault)
        IN /\ call.queried = p
           /\ call.err = r.err
           /\ call.committee = r.val
           /\ (call.round = 10 => call.queried = 9)
           /\ (call.round = 11 => call.queried = 9)
           /\ (call.round = 4 => call.queried = 3)
           /\ (call.round = 5 => call.queried = 3)

\* Round 5 refers to round 3, whose committee is not the committee of round 5.
C6_Witness ==
    /\ IsCall("get_previous_committee_for_round")
    /\ call.round = 5
    /\ call.queried = 3
    /\ call.err = "None"
    /\ call.committee # get_committee_for_round(ledger, 5, "none").val

PreData == call.preTransmission.data

\* C7: ensure_transmission_id_matches, called on a transmission already in
\* Object form with the id it was checked against before (or with the
\* identity of its object), succeeds and leaves the transmission identical.
C7_EnsureIdempotent ==
    (/\ IsCall("ensure_transmission_id_matches")
     /\ PreData.form = "Object"
     /\ \/ call.tid = call.preCheckedId
        \/ /\ call.tid.kind = call.preTransmission.kind
           /\ call.tid.id = ComputedId(PreData.obj)) =>
        /\ call.err = "None"
        /\ transmission = call.preTransmission
        /\ checkedId = call.tid

\* The second successful check of a transmission that the first one resolved.
C7_Witness ==
    /\ IsCall("ensure_transmission_id_matches")
    /\ PreData.form = "Object"
    /\ call.preCheckedId # NoID
    /\ call.tid = call.preCheckedId
    /\ call.err = "None"

\* C8: ensure_transmission_id_matches turns bytes into the object only when
\* the bytes decode and the object's identity is the claimed id; on any error
\* the transmission is as before; a transmission that passed the check holds
\* an object whose identity is the id it was checked against.
C8_ResolveOnlyOnMatch ==
    /\ IsCall("ensure_transmission_id_matches") =>
        /\ call.err # "None" => transmission = call.preTransmission
        /\ call.err \in {"None", "IdentityMismatch", "CodecError", "TypeMismatch"}
        /\ (PreData.form = "Buffer" /\ transmission.data.form = "Object") =>
            /\ call.err = "None"
            /\ FromBytes(PreData.bytes).err = "None"
            /\ transmission.data.obj = FromBytes(PreData.bytes).val
            /\ ComputedId(transmission.data.obj) = call.tid.id
            /\ transmission.kind = call.preTransmission.kind
    /\ (checkedId # NoID /\ checkedId.kind # "Ratification") =>
        /\ transmission.kind = checkedId.kind
        /\ transmission.data.form = "Object"
        /\ ComputedId(transmission.data.obj) = checkedId.id

\* Bytes have been replaced by the object they decode to.
C8_Witness ==
    /\ IsCall("ensure_transmission_id_matches")
    /\ PreData.form = "Buffer"
    /\ transmission.data.form = "Object"
    /\ call.err = "None"

\* C9: ensure_transmission_id_matches succeeds for a Ratification id with a
\* Ratification transmission, and fails TypeMismatch, without deserializing
\* and whatever the payload, when the id's variant is not the transmission's.
C9_TypeMismatch ==
    IsCall("ensure_transmission_id_matches") =>
        /\ (call.tid.kind = "Ratification" /\ call.preTransmission.kind = "Ratification") =>
            call.err = "None"
        /\ call.tid.kind # call.preTransmission.kind =>
            /\ call.err = "TypeMismatch"
            /\ ~call.deserialized
            /\ transmission = call.preTransmission

\* A Solution id is checked against a Transaction whose bytes decode to an
\* object of exactly that identity: only the variant differs.
C9_Witness ==
    /\ IsCall("ensure_transmission_id_matches")
    /\ call.tid.kind = "Solution"
    /\ call.preTransmission.kind = "Transaction"
    /\ PreData.form = "Buffer"
    /\ FromBytes(PreData.bytes).err = "None"
    /\ ComputedId(FromBytes(PreData.bytes).val) = call.tid.id
    /\ call.err = "TypeMismatch"

\* C10: check_transaction_basic never accepts a fee transaction, returns
\* UnexpectedFeeTransaction for one of the claimed identity without calling
\* the ledger's checker, and tests in the order: decoding, identity, fee tag,
\* ledger checker.
C10_FeeRejected ==
    IsCall("check_transaction_basic") =>
        LET decodes == IF call.data.form = "Object" THEN TRUE ELSE Len(call.data.bytes) = 2
            obj == IF call.data.form = "Object"
                   THEN call.data.obj
                   ELSE [body |-> call.data.bytes[1], flag |-> call.data.bytes[2] = 1]
        IN /\ ~decodes => (call.err = "CodecError" /\ ~call.checkerCalled)
           /\ decodes =>
               /\ ComputedId(obj) # call.tid.id =>
                   (call.err = "IdMismatch" /\ ~call.checkerCalled)
               /\ (ComputedId(obj) = call.tid.id /\ obj.flag) =>
                   (call.err = "UnexpectedFeeTransaction" /\ ~call.checkerCalled)
               /\ (ComputedId(obj) = call.tid.id /\ ~obj.flag) =>
                   (call.err = call.verdict /\ call.checkerCalled)
               /\ obj.flag => call.err # "None"

\* A fee transaction sent as bytes under its own identity is refused, though
\* the ledger's checker would have accepted it.
C10_Witness ==
    /\ IsCall("check_transaction_basic")
    /\ call.data.form = "Buffer"
    /\ call.err = "UnexpectedFeeTransaction"
    /\ call.verdict = "None"
    /\ ~call.checkerCalled


\* C11: check_solution_basic succeeds only if the payload decodes, the
\* solution's commitment is the claimed one and the verification returns
\* true; a commitment mismatch fails ClaimMismatch with no verification run;
\* a verification error or a false verification fails VerificationFailed.
C11_SolutionAccepted ==
    IsCall("check_solution_basic") =>
        LET decoded == FromBytes(call.data.bytes)
            decodes == call.data.form = "Object" \/ decoded.err = "None"
            obj == IF call.data.form = "Object" THEN call.data.obj ELSE decoded.val
        IN /\ call.err = "None" =>
               /\ decodes
               /\ ComputedId(obj) = call.tid.id
               /\ call.verifyCalled
               /\ call.verify = "true"
           /\ (decodes /\ ComputedId(obj) # call.tid.id) =>
               (call.err = "ClaimMismatch" /\ ~call.verifyCalled)
           /\ (call.verifyCalled /\ call.verify \in {"false", "error"}) =>
               call.err = "VerificationFailed"
           /\ (decodes /\ ComputedId(obj) = call.tid.id /\ call.fault = "none") =>
               call.verifyCalled

\* A solution sent as bytes under its own commitment is refused because the
\* verification returned false.
C11_Witness ==
    /\ IsCall("check_solution_basic")
    /\ call.data.form = "Buffer"
    /\ call.verifyCalled
    /\ call.verify = "false"
    /\ call.err = "VerificationFailed"


\* C12: prepare_advance_to_next_quorum_block returns IncompleteTransmissions
\* whenever a certificate of the sub-DAG refers to a transmission id that is
\* no key of the supplied map, and in every outcome of prepare the ledger
\* (storage and head) is as before: no block is stored.
C12_IncompleteTransmissions ==
    IsCall("prepare_advance_to_next_quorum_block") =>
        /\ ledger = PreLedger
        /\ (/\ call.fault = "none"
            /\ \E c \in call.subdag.certificates : \E id \in c : id \notin call.transmissions) =>
                (call.err = "IncompleteTransmissions" /\ call.candidate = NoCandidate)

\* One of two certificates refers to an id the map lacks, the other does not.
C12_Witness ==
    /\ IsCall("prepare_advance_to_next_quorum_block")
    /\ call.err = "IncompleteTransmissions"
    /\ \E c \in call.subdag.certificates : c \subseteq call.transmissions
    /\ \E c \in call.subdag.certificates : ~(c \subseteq call.transmissions)
    /\ LedgerLatestHeight(ledger) >= 1


\* The attempts whose call of advance_to_next_block has returned, and the
\* orders they can be put in.
Advanced == {p \in Attempts : attempt[p].advanced}
CommittedAttempts == {p \in Advanced : attempt[p].pc = "Committed"}
Orders(S) ==
    {o \in [1..Cardinality(S) -> S] :
        \A i, j \in 1..Cardinality(S) : o[i] = o[j] => i = j}

\* The ledger after the calls o[i], o[i+1], .. made one after the other from
\* L, if each returns what it has returned; no ledger otherwise.
RECURSIVE Replay(_, _, _, _)
Replay(L, o, i, n) ==
    IF i > n
    THEN <<L>>
    ELSE LET a == attempt[o[i]]
             r == advance_to_next_block(L, a.seen, a.candidate.block, a.fault)
         IN IF r.res.err = a.err THEN Replay(r.ledger, o, i + 1, n) ELSE <<>>

\* C14: under every interleaving of the commit attempts, the ledger and the
\* results of the calls of advance_to_next_block that have returned are those
\* of the calls made one after the other in some order; of two attempts
\* whose candidates have the same height at most one is appended, and the
\* head rises by one per appended block.
C14_AdvancesLinearized ==
    /\ \E o \in Orders(Advanced) : Replay(base, o, 1, Cardinality(Advanced)) = <<ledger>>
    /\ \A p, q \in CommittedAttempts :
          p # q => attempt[p].candidate.block.height # attempt[q].candidate.block.height
    /\ LedgerLatestHeight(ledger) = LedgerLatestHeight(base) + Cardinality(CommittedAttempts)

\* Two attempts have raced with candidates for the same height, neither saw
\* the flag nor a storage failure: one is committed, the head is up by one.
C14_Witness ==
    \E p, q \in Advanced :
        /\ attempt[p].pc = "Committed"
        /\ attempt[q].pc = "Rejected"
        /\ ~attempt[q].seen /\ ~attempt[q].fault
        /\ attempt[p].candidate.block.height = attempt[q].candidate.block.height
        /\ LedgerLatestHeight(ledger) = LedgerLatestHeight(base) + 1

\* The head has moved between check_next_block and the append.
Stale(a) == a.checkedHead # Hash(a.preHead)

\* C15: a block advance_to_next_block appends has the height of the head
\* plus one and the hash of the head as previous hash, the head being that
\* at the append; a candidate validated against a head that has moved since
\* is refused and the ledger is left as it was.
C15_StaleCandidateRefused ==
    \A p \in Advanced :
        LET a == attempt[p] IN
        /\ a.pc = "Committed" =>
              /\ a.candidate.block.height = a.preHead.height + 1
              /\ a.candidate.previous_hash = Hash(a.preHead)
              /\ a.changed
        /\ Stale(a) =>
              /\ a.pc # "Committed"
              /\ a.err # "None"
              /\ ~a.changed

\* A validated candidate reaches the append after another block took its
\* place: it is refused, though neither the flag nor the storage stood in
\* the way.
C15_Witness ==
    \E p \in Advanced :
        /\ Stale(attempt[p])
        /\ ~attempt[p].seen /\ ~attempt[p].fault
        /\ attempt[p].pc = "Rejected"
        /\ LedgerLatestHeight(ledger) = attempt[p].candidate.block.height

\* An attempt that has loaded the flag as unset and has not appended yet.
InFlightUnset(p) == attempt[p].pc = "Observed" /\ ~attempt[p].seen
Quiesced == shutdown /\ \A p \in Attempts : ~InFlightUnset(p)

\* An attempt that read the flag as set appends nothing.
C16_NoAppendOnceSeen ==
    \A p \in Advanced :
        attempt[p].seen =>
            /\ attempt[p].pc = "Aborted"
            /\ attempt[p].err = "Shutdown"
            /\ ~attempt[p].changed

\* The flag stays set and no step of an attempt writes it; an attempt loads
\* it once, on entering advance_to_next_block; the ledger changes only by
\* an attempt that loaded the flag unset, which is then over; with the flag
\* set and no such attempt left, the ledger stays as it is for good.
C16_Step ==
    /\ shutdown => shutdown'
    /\ shutdown' # shutdown => (attempt' = attempt /\ ledger' = ledger)
    /\ \A p \in Attempts :
          (attempt'[p].seen # attempt[p].seen /\ attempt'[p].pc # "Idle") =>
              (attempt[p].pc = "Validated" /\ attempt'[p].pc = "Observed")
    /\ ledger' # ledger =>
          \E p \in Attempts : InFlightUnset(p) /\ attempt'[p].pc = "Committed"
    /\ Quiesced => (Quiesced' /\ ledger' = ledger)

\* C16: with the flag set while attempts are in flight, an attempt that read
\* it as set appends nothing; the flag is read once per attempt before the
\* append and the service never writes it; after the flag is set only
\* attempts that read it unset append, once each, and then the head is final.
C16_ShutdownAndAttempts == []C16_NoAppendOnceSeen /\ [][C16_Step]_vars

\* A block is appended while the flag is set, by an attempt that had loaded
\* it unset; another attempt has been aborted.
C16_Witness ==
    \E p, q \in Advanced :
        /\ attempt[p].pc = "Committed"
        /\ attempt[p].flagAtAppend
        /\ ~attempt[p].seen
        /\ attempt[q].pc = "Aborted"

\* The ledger as it was when it held n blocks (the epoch challenge and the
\* proof target are read from the blocks).
PastLedgers ==
    {[ledger EXCEPT !.blocks = SubSeq(ledger.blocks, 1, n)] : n \in 1..Len(ledger.blocks)}

\* C17 as stated: the epoch challenge and the proof target a solution is
\* verified against are those of one and the same ledger state, whatever
\* blocks are committed during the check.
C17_ChallengeAndTargetOfOneHead ==
    solver.pc = "Verified" =>
        \E L \in PastLedgers :
            /\ solver.challenge = LedgerLatestEpochChallenge(L)
            /\ solver.target = LedgerLatestProofTarget(L)

\* C18: every operation other than advance_to_next_block leaves the ledger
\* (head, stored blocks, committees) and the shutdown flag as they were,
\* whether it succeeds or fails.
C18_Frame ==
    (call = NoCall /\ call' # NoCall /\ call'.op # "advance_to_next_block") =>
        /\ ledger' = ledger
        /\ shutdown' = shutdown

C18_OnlyAdvanceWrites == [][C18_Frame]_vars

\* check_next_block has accepted a candidate on a head above genesis, with
\* the flag set: the head and the flag are as before the call.
C18_Witness ==
    /\ IsCall("check_next_block")
    /\ call.err = "None"
    /\ shutdown
    /\ LedgerLatestHeight(ledger) >= 1
    /\ ledger = PreLedger
    /\ LedgerAccepts(ledger, call.block)

\* The store each lookup by key reads.
KeyedStore(op) ==
    CASE op = "get_block_height" -> "height"
      [] op = "get_block_hash" -> "hash"
      [] op = "get_block" -> "block"
      [] op = "get_solution" -> "solution"
      [] op = "get_unconfirmed_transaction" -> "transaction"
      [] op = "get_batch_certificate" -> "certificate"

KeyedLookups ==
    {"get_block_height", "get_block_hash", "get_block", "get_solution",
     "get_unconfirmed_transaction", "get_batch_certificate"}

ExistenceQueries ==
    {"contains_block_height", "contains_certificate", "contains_transmission", "get_blocks"}

\* C19: the storage not failing, a lookup by key returns NotFound and no
\* value for an absent key (and the stored value for a present one), also
\* get_batch_certificate; contains_block_height, contains_certificate,
\* contains_transmission and get_blocks succeed whatever the key.
C19_AbsentKeys ==
    call.fault = "none" =>
        /\ call.op \in KeyedLookups =>
              IF call.key[1] \in TableKeys(ledger, KeyedStore(call.op))
              THEN /\ call.err = "None"
                   /\ call.val = <<TableValue(ledger, KeyedStore(call.op), call.key[1])>>
              ELSE /\ call.err = "NotFound"
                   /\ call.val = <<>>
        /\ call.op \in ExistenceQueries => call.err = "None"
        /\ call.op = "contains_block_height" =>
              call.bool = (call.key[1] \in StoredHeights(ledger))
        /\ call.op = "contains_certificate" =>
              call.bool = (call.key[1] \in StoredIds(ledger))
        /\ call.op = "contains_transmission" =>
              call.bool = /\ call.key[1].kind # "Ratification"
                          /\ call.key[1].id \in StoredIds(ledger)

\* A certificate id the ledger does not hold, beside one it holds.
C19_Witness ==
    /\ IsCall("get_batch_certificate")
    /\ call.fault = "none"
    /\ StoredIds(ledger) # {}
    /\ call.key[1] \notin StoredIds(ledger)
    /\ call.err = "NotFound"

\* C20 as stated: whenever the storage fails during an operation, the
\* operation returns an error to its caller.
C20_StorageErrorsReachCaller ==
    (call # NoCall /\ call.raised) => call.err # "None"


\* C21 as stated: the reference round of get_previous_committee_for_round
\* is the round minus 1 for an odd round and the round minus 2 for an even
\* round (rounds from 2 on, where nothing saturates).
C21_OddMinusOneEvenMinusTwo ==
    (IsCall("get_previous_committee_for_round") /\ call.round >= 2) =>
        call.round - call.queried = (IF call.round % 2 = 1 THEN 1 ELSE 2)

\* C21, amended: from round 2 on the reference round is the round minus 1
\* for an even round and the round minus 2 for an odd round, and the call
\* answers as get_committee_for_round does for that round.
C21_EvenMinusOneOddMinusTwo ==
    (IsCall("get_previous_committee_for_round") /\ call.round >= 2) =>
        /\ call.round - call.queried = (IF call.round % 2 = 0 THEN 1 ELSE 2)
        /\ call.err = get_committee_for_round(ledger, call.queried, call.fault).err
        /\ call.committee = get_committee_for_round(ledger, call.queried, call.fault).val

\* An odd round whose preceding even round installed a committee: the call
\* steps over that round and returns the committee before it.
C21_Witness ==
    /\ IsCall("get_previous_committee_for_round")
    /\ call.round % 2 = 1
    /\ call.round >= 3
    /\ call.fault = "none"
    /\ call.err = "None"
    /\ \E c \in ledger.committees : c.starting_round = call.round - 1
    /\ call.committee.starting_round < call.round - 1


\* The ledgers from `first` to `last`: one per commit made in between (the
\* committees of a ledger are those its blocks have installed).
SnapshotsBetween(first, last) ==
    {[blocks |-> SubSeq(last.blocks, 1, n),
      committees |-> {CommitteeOf(last.blocks[i]) :
                         i \in {j \in 1..n : last.blocks[j].installs}}] :
        n \in Len(first.blocks)..Len(last.blocks)}

\* C22 as stated: the result of get_committee_for_round(r), committee or
\* RoundTooOld, is the result against one ledger state of those between its
\* first and its last read, whatever blocks are committed meanwhile.
C22_CommitteeOfOneHead ==
    resolver.pc = "Done" =>
        \E L \in SnapshotsBetween(resolver.first[1], resolver.last[1]) :
            LET r == get_committee_for_round(L, resolver.round, "none") IN
            /\ resolver.err = r.err
            /\ resolver.committee = r.val

\* C23: the reference round of get_previous_committee_for_round never goes
\* below 0 and never above the round asked for; rounds 0 and 1 both query
\* round 0 and answer as get_committee_for_round(0) does.
C23_ReferenceRoundNeverUnderflows ==
    IsCall("get_previous_committee_for_round") =>
        /\ call.queried >= 0
        /\ call.queried <= call.round
        /\ call.round \in {0, 1} =>
              LET r == get_committee_for_round(ledger, 0, call.fault) IN
              /\ call.queried = 0
              /\ call.err = r.err
              /\ call.committee = r.val

\* Round 1 is resolved through round 0 to the committee that starts there.
C23_Witness ==
    /\ IsCall("get_previous_committee_for_round")
    /\ call.round = 1
    /\ call.queried = 0
    /\ call.err = "None"
    /\ call.committee.starting_round = 0

====
